---------------------------- MODULE Spec2Model ----------------------------
(***************************************************************************)
(* A model of erred/usvc: the protocol dispatcher and the lifecycle        *)
(* coordinator of usvc.go (Conf.Server, Conf.sharedServer) and the service *)
(* runner Run(ctx, svc).                                                   *)
(*                                                                         *)
(* It also covers the request middleware (httpMid, logMid, corsAllowAll,   *)
(* WithCORS), the cancellation source SignalContext and the entry point    *)
(* Conf.RunHTTP.                                                           *)
(*                                                                         *)
(* The specifications share the module's variables; each leaves the        *)
(* variables of the other parts at their initial values:                   *)
(*   SpecDispatch  requests served by the handler sharedServer installs    *)
(*   Spec          one invocation of the run function Conf.Server returns  *)
(*   SpecRun       one invocation of Run(ctx, svc)                         *)
(*   SpecMid       one request served through a chain of wrappers          *)
(*   SpecContexts  calls of SignalContext and the signals they wait for    *)
(*   SpecSignals   SignalContext calls next to the coordinator's watchers  *)
(*   SpecEntry     Conf.RunHTTP or Conf.Server, then the run function      *)
(* FairSpec, FairSpecRun, FairSpecContexts and FairSpecSignals add the     *)
(* scheduler's fairness.                                                   *)
(***************************************************************************)
EXTENDS Naturals, Sequences, FiniteSets, TLC

VARIABLES
    \* ---- dispatcher (sharedServer's handler) ----
    grpcNil,        \* sharedServer was given grpcServer == nil
    served,         \* one record per request served: the request and the calls made
    panicked        \* a nil *grpc.Server was dereferenced

dvars == <<grpcNil, served, panicked>>

VARIABLES
    \* ---- lifecycle coordinator (Conf.Server, Conf.sharedServer) ----
    conf,           \* Conf: HTTPAddr, GRPCAddr
    ctxDone,        \* the context given to run is cancelled
    nsig,           \* SIGINT/SIGTERM deliveries so far
    sigc,           \* per watcher: its signal channel c (registered, buffered signals)
    hrun,           \* position of sharedServer's run (httpRun in split mode)
    herr,           \* its local err: what ListenAndServe returned
    hres,           \* its return value
    hw,             \* position of run's shutdown goroutine (lines 194-216)
    hwErr,          \* its local err: what srv.Shutdown returned
    srv,            \* the http.Server: inShutdown, and the srv.Shutdown call
    gs,             \* the grpcServer.GracefulStop call: none, called, running, returned
    gc,             \* the channel gc of line 203: open or closed
    grpcQuit,       \* the grpc.Server has been stopped (its listeners are gone)
    grun,           \* position of grpcRun (split mode)
    gres,           \* its return value
    gw,             \* position of grpcRun's goroutine (lines 134-142)
    group,          \* the errgroup: err, its context cancelled, goroutines finished
    top,            \* position of the composed run of lines 158-163
    tres,           \* its return value
    httpInflight,   \* HTTP requests being handled
    rpcInflight,    \* RPC calls being handled
    logged,         \* the "started ..." log lines emitted
    calls,          \* how often srv.Shutdown and GracefulStop were invoked, and how
                    \* often run started the goroutine of lines 205-208
    \* ---- history of the run, read only by the properties ----
    wokeBusy,       \* the shutdown goroutine woke while both engines had work in flight
    lateSig,        \* a second signal was delivered after shutdown had begun
    firstFail       \* the side whose run function was the first to return an error

lvars == <<conf, ctxDone, nsig, sigc, hrun, herr, hres, hw, hwErr, srv, gs, gc,
           grpcQuit, grun, gres, gw, group, top, tres, httpInflight, rpcInflight,
           logged, calls, wokeBusy, lateSig, firstFail>>

VARIABLES
    \* ---- service runner: Run(ctx, svc) ----
    rctxDone,       \* the ctx given to Run is done
    rmain,          \* position of Run
    rerr,           \* its local err
    rret,           \* its return value
    rgo,            \* position of the goroutine of lines 15-17
    errc,           \* the value that goroutine is sending on errc
    svc,            \* the Service: calls of Run and Shutdown, and what they returned
    branch          \* the case the select of lines 20-24 took

rvars == <<rctxDone, rmain, rerr, rret, rgo, errc, svc, branch>>

VARIABLES
    \* ---- request middleware (httpMid, logMid, corsAllowAll, WithCORS) ----
    level,          \* the level of the zerolog.Logger given to httpMid / logMid
    cors,           \* the arguments of WithCORS: allowedMethods, allowedSuffix
    handler,        \* the http.Handler under test, outermost wrapper first
    handled         \* the last request served by it and what serving it did

mvars == <<level, cors, handler, handled>>

VARIABLES
    \* ---- cancellation source: SignalContext (context.go) ----
    sc              \* per call of SignalContext: its goroutine, its channel c, its ctx

svars == <<sc>>

VARIABLES
    \* ---- entry points: Conf.RunHTTP, Conf.Server ----
    caller          \* the entry point the caller uses, and the Conf it calls it on

evars == <<caller>>

VARIABLES
    \* ---- HTTP-only coordinator: the run function of the earlier Conf.Server ----
    ctxKind,        \* the ctx given to run: a plain one, or one from SignalContext
    orun,           \* position of run
    ores,           \* its return value
    ow,             \* position of run's shutdown goroutine
    oc,             \* that goroutine's signal channel c
    osecond,        \* position of the goroutine that waits for one more signal
    shutdownCtx,    \* the context given to srv.Shutdown: none, live, cancelled, expired
    osrv,           \* the http.Server: inShutdown, and the srv.Shutdown call
    oinflight,      \* HTTP requests being handled
    \* ---- history, read only by the properties ----
    olate           \* a signal was delivered after the shutdown goroutine left its select

ovars == <<ctxKind, orun, ores, ow, oc, osecond, shutdownCtx, osrv, oinflight, olate>>

vars == <<dvars, lvars, rvars, mvars, svars, evars, ovars>>

(***************************************************************************)
(* Bounds                                                                  *)
(***************************************************************************)
MaxRequests == 2
MaxSignals == 2
MaxInflight == 1
MaxContexts == 2

(***************************************************************************)
(* Protocol dispatcher: usvc.go sharedServer, lines 168-178                *)
(***************************************************************************)
GrpcPrefix == "application/grpc"

\* strings.HasPrefix
HasPrefix(s, prefix) ==
    /\ Len(s) >= Len(prefix)
    /\ SubSeq(s, 1, Len(prefix)) = prefix

\* Values of r.Header.Get("Content-Type"); "" is an absent header.
ContentTypes ==
    { "", "application/grpc", "application/grpc+proto", "application/grp",
      "application/grpc-web", "application/json", "text/application/grpc",
      "Application/grpc" }

ProtoMajors == {1, 2, 3}

Requests == [ProtoMajor : ProtoMajors, ContentType : ContentTypes]

NoCalls == [grpc |-> 0, http |-> 0, nilDeref |-> FALSE]

\* grpcServer.ServeHTTP(w, r): a method call on a nil *grpc.Server panics.
GrpcServeHTTP(nilEngine, made) ==
    IF nilEngine
    THEN [made EXCEPT !.nilDeref = TRUE]
    ELSE [made EXCEPT !.grpc = @ + 1]

\* h.ServeHTTP(w, r)
HServeHTTP(made) == [made EXCEPT !.http = @ + 1]


\* A variant of IsGrpcRequest that compares the content type for equality.
IsGrpcRequest_Exact(r) ==
    r.ProtoMajor = 2 /\ r.ContentType = GrpcPrefix

\* The condition of line 170.
IsGrpcRequest(r) ==
    r.ProtoMajor = 2 /\ HasPrefix(r.ContentType, GrpcPrefix)

\* The HandlerFunc of lines 169-175.
dispatchFunc(nilEngine, r) ==
    IF IsGrpcRequest(r)
    THEN GrpcServeHTTP(nilEngine, NoCalls)
    ELSE HServeHTTP(NoCalls)


\* A variant of dispatch without lines 176-178.
dispatch_NoNilCheck(nilEngine, r) == dispatchFunc(nilEngine, r)

\* The handler installed as srv.Handler: lines 169-178, 182.
dispatch(nilEngine, r) ==
    IF nilEngine
    THEN HServeHTTP(NoCalls)
    ELSE dispatchFunc(nilEngine, r)

DInit ==
    /\ grpcNil \in BOOLEAN
    /\ served = <<>>
    /\ panicked = FALSE

\* srv.Handler.ServeHTTP(w, r) for one incoming request.
ServeRequest ==
    /\ UNCHANGED <<lvars, rvars, mvars, svars, evars, ovars>>
    /\ Len(served) < MaxRequests
    /\ ~panicked
    /\ \E r \in Requests :
         LET c == dispatch(grpcNil, r) IN
         /\ served' = Append(served, [req |-> r, calls |-> c])
         /\ panicked' = c.nilDeref
    /\ UNCHANGED grpcNil

(***************************************************************************)
(* Lifecycle coordinator: usvc.go Conf.Server (lines 126-164) and the run  *)
(* function of Conf.sharedServer (lines 191-231).                          *)
(*                                                                         *)
(* The collaborators are modelled by their documented behaviour:           *)
(*   net/http   Shutdown sets the server shutting down, closes the         *)
(*              listeners and returns once no request is in flight, with   *)
(*              the listeners' close error; ListenAndServe returns         *)
(*              ErrServerClosed once the server is shutting down.          *)
(*   grpc 1.31  GracefulStop stops the listeners and returns once no call  *)
(*              is in flight; Serve returns ErrServerStopped when called   *)
(*              after a stop, and otherwise nil once the stop has ended.   *)
(*   errgroup   the first non-nil error cancels the group's context and is *)
(*              what Wait returns, after every goroutine has finished.     *)
(* A listener that was bound does not fail afterwards; a handler may take  *)
(* arbitrarily long, or forever.                                           *)
(***************************************************************************)
Nil == "nil"
ErrServerClosed == "http: Server closed"
ErrServerStopped == "grpc: the server has been stopped"
ErrBindHTTP == "listen http: address already in use"
ErrBindGRPC == "listen grpc: address already in use"
ErrClose == "close listener: error"

Addrs == {":8080", ":9090"}
Sides == {"http", "grpc"}
StartedHTTP == "started http server"
StartedGRPC == "started grpc server"
NoFail == [side |-> "none", err |-> Nil]

\* Line 127: the two protocols share one listener.
Shared == conf.GRPCAddr = conf.HTTPAddr

\* The grpcServer argument of sharedServer: line 128 passes the engine, line 153 nil.
GrpcServerNil == ~Shared

\* The ctx the run functions see: run's own in shared mode, the errgroup's (line 159)
\* in split mode.
RunCtxDone == ctxDone \/ (~Shared /\ group.cancelled)


\* A variant of GroupGoReturn that keeps the last error instead of the first.
GroupGoReturn_LastWins(g, side, err) ==
    [ err       |-> IF err # Nil THEN err ELSE g.err,
      cancelled |-> g.cancelled \/ err # Nil,
      finished  |-> g.finished \cup {side} ]

\* errgroup.Group.Go's wrapper around f: the first non-nil error is kept and cancels.
GroupGoReturn(g, side, err) ==
    [ err       |-> IF err # Nil /\ g.err = Nil THEN err ELSE g.err,
      cancelled |-> g.cancelled \/ err # Nil,
      finished  |-> g.finished \cup {side} ]

\* A run function of line 160 or 161 returns err to the group (split mode only).
ReturnToGroup(side, err) ==
    IF Shared
    THEN UNCHANGED <<group, firstFail>>
    ELSE /\ group' = GroupGoReturn(group, side, err)
         /\ firstFail' = IF err # Nil /\ firstFail = NoFail
                         THEN [side |-> side, err |-> err]
                         ELSE firstFail

LInit ==
    /\ conf \in [HTTPAddr : {":8080"}, GRPCAddr : Addrs]
    /\ ctxDone = FALSE
    /\ nsig = 0
    /\ sigc = [w \in Sides |-> [registered |-> FALSE, buf |-> 0, got |-> FALSE]]
    /\ hrun = "start"
    /\ herr = Nil
    /\ hres = Nil
    /\ hw = "idle"
    /\ hwErr = Nil
    /\ srv = [inShutdown |-> FALSE, shutdown |-> "none", ret |-> Nil]
    /\ gs = "none"
    /\ gc = "open"
    /\ grpcQuit = FALSE
    /\ grun = IF Shared THEN "idle" ELSE "start"
    /\ gres = Nil
    /\ gw = "idle"
    /\ group = [err |-> Nil, cancelled |-> FALSE, finished |-> {}]
    /\ top = IF Shared THEN "idle" ELSE "wait"
    /\ tres = Nil
    /\ httpInflight = 0
    /\ rpcInflight = 0
    /\ logged = {}
    /\ calls = [shutdown |-> 0, gracefulStop |-> 0, stopGoroutines |-> 0]
    /\ wokeBusy = FALSE
    /\ lateSig = FALSE
    /\ firstFail = NoFail

\* ---- sharedServer's run: lines 191-231 ----

\* Lines 192-216: se is made and the shutdown goroutine started.
HRunStart ==
    /\ hrun = "start"
    /\ hrun' = "listen"
    /\ hw' = "notify"
    /\ UNCHANGED <<dvars, rvars, mvars, evars, ovars, svars, conf, ctxDone, nsig, sigc, herr, hres, hwErr, srv, gs, gc, grpcQuit,
                   grun, gres, gw, group, top, tres, httpInflight, rpcInflight,
                   logged, calls, wokeBusy, lateSig, firstFail>>

\* Lines 218-230: the "started" line is logged, then ListenAndServe is entered. It
\* returns ErrServerClosed at once when Shutdown was already called, or the bind
\* error (returned unchanged by line 230), or it serves.
HRunListen ==
    /\ hrun = "listen"
    /\ logged' = logged \cup {StartedHTTP}
    /\ \/ /\ srv.inShutdown
          /\ herr' = ErrServerClosed
          /\ hrun' = "recv"
          /\ UNCHANGED <<hres, group, firstFail>>
       \/ /\ ~srv.inShutdown
          /\ herr' = ErrBindHTTP
          /\ hres' = ErrBindHTTP
          /\ hrun' = "done"
          /\ ReturnToGroup("http", ErrBindHTTP)
       \/ /\ ~srv.inShutdown
          /\ hrun' = "serve"
          /\ UNCHANGED <<herr, hres, group, firstFail>>
    /\ UNCHANGED <<dvars, rvars, mvars, evars, ovars, svars, conf, ctxDone, nsig, sigc, hw, hwErr, srv, gs, gc, grpcQuit,
                   grun, gres, gw, top, tres, httpInflight, rpcInflight,
                   calls, wokeBusy, lateSig>>


\* A variant of HRunServeClosed without the errors.Is test of line 227.
HRunServeClosed_NoFilter ==
    /\ hrun = "serve"
    /\ srv.inShutdown
    /\ herr' = ErrServerClosed
    /\ hres' = ErrServerClosed
    /\ hrun' = "done"
    /\ ReturnToGroup("http", ErrServerClosed)
    /\ UNCHANGED <<dvars, rvars, mvars, evars, ovars, svars, conf, ctxDone, nsig, sigc, hw, hwErr, srv, gs, gc, grpcQuit,
                   grun, gres, gw, top, tres, httpInflight, rpcInflight,
                   logged, calls, wokeBusy, lateSig>>

\* Lines 225-228: the serve call ends with ErrServerClosed; errors.Is holds and run
\* goes on to receive from se.
HRunServeClosed ==
    /\ hrun = "serve"
    /\ srv.inShutdown
    /\ herr' = ErrServerClosed
    /\ hrun' = "recv"
    /\ UNCHANGED <<dvars, rvars, mvars, evars, ovars, svars, conf, ctxDone, nsig, sigc, hres, hw, hwErr, srv, gs, gc, grpcQuit,
                   grun, gres, gw, group, top, tres, httpInflight, rpcInflight,
                   logged, calls, wokeBusy, lateSig, firstFail>>

\* Line 228 with line 215: the unbuffered se hands the goroutine's err to run, which
\* returns it.
HRunRecv ==
    /\ hrun = "recv"
    /\ hw = "send"
    /\ hres' = hwErr
    /\ hrun' = "done"
    /\ hw' = "done"
    /\ ReturnToGroup("http", hwErr)
    /\ UNCHANGED <<dvars, rvars, mvars, evars, ovars, svars, conf, ctxDone, nsig, sigc, herr, hwErr, srv, gs, gc, grpcQuit,
                   grun, gres, gw, top, tres, httpInflight, rpcInflight,
                   logged, calls, wokeBusy, lateSig>>

\* ---- run's shutdown goroutine: lines 194-216 ----

\* Lines 195-196: signal.Notify registers the goroutine's channel c.
HWNotify ==
    /\ hw = "notify"
    /\ hw' = "select"
    /\ sigc' = [sigc EXCEPT !["http"].registered = TRUE]
    /\ UNCHANGED <<dvars, rvars, mvars, evars, ovars, svars, conf, ctxDone, nsig, hrun, herr, hres, hwErr, srv, gs, gc, grpcQuit,
                   grun, gres, gw, group, top, tres, httpInflight, rpcInflight,
                   logged, calls, wokeBusy, lateSig, firstFail>>

\* Lines 197-200: the select takes a buffered signal or sees ctx done.
HWWake ==
    /\ hw = "select"
    /\ \/ /\ sigc["http"].buf > 0
          /\ sigc' = [sigc EXCEPT !["http"].buf = @ - 1]
       \/ /\ RunCtxDone
          /\ UNCHANGED sigc
    /\ hw' = "woken"
    /\ wokeBusy' = (httpInflight > 0 /\ rpcInflight > 0)
    /\ UNCHANGED <<dvars, rvars, mvars, evars, ovars, svars, conf, ctxDone, nsig, hrun, herr, hres, hwErr, srv, gs, gc, grpcQuit,
                   grun, gres, gw, group, top, tres, httpInflight, rpcInflight,
                   logged, calls, lateSig, firstFail>>


\* A variant of HWShutdown without the nil test of line 204.
HWShutdown_NoNilCheck ==
    /\ hw = "woken"
    /\ hw' = "shutdown"
    /\ gs' = "called"
    /\ srv' = [srv EXCEPT !.inShutdown = TRUE, !.shutdown = "running"]
    /\ calls' = [calls EXCEPT !.shutdown = @ + 1, !.stopGoroutines = @ + 1]
    /\ UNCHANGED <<dvars, rvars, mvars, evars, ovars, svars, conf, ctxDone, nsig, sigc, hrun, herr, hres, hwErr, gc, grpcQuit,
                   grun, gres, gw, group, top, tres, httpInflight, rpcInflight,
                   logged, wokeBusy, lateSig, firstFail>>

\* Lines 203-210: gc is made, the GracefulStop goroutine is started when there is an
\* RPC engine, and srv.Shutdown(context.Background()) is called.
HWShutdown ==
    /\ hw = "woken"
    /\ hw' = "shutdown"
    /\ gs' = IF GrpcServerNil THEN gs ELSE "called"
    /\ srv' = [srv EXCEPT !.inShutdown = TRUE, !.shutdown = "running"]
    /\ calls' = [calls EXCEPT !.shutdown = @ + 1,
                              !.stopGoroutines = IF GrpcServerNil THEN @ ELSE @ + 1]
    /\ UNCHANGED <<dvars, rvars, mvars, evars, ovars, svars, conf, ctxDone, nsig, sigc, hrun, herr, hres, hwErr, gc, grpcQuit,
                   grun, gres, gw, group, top, tres, httpInflight, rpcInflight,
                   logged, wokeBusy, lateSig, firstFail>>

\* Line 210: srv.Shutdown returns once no HTTP request is in flight; its context
\* never expires. It returns the listeners' close error, or nil.
HWShutdownReturn ==
    /\ hw = "shutdown"
    /\ httpInflight = 0
    /\ \E e \in {Nil, ErrClose} :
         /\ hwErr' = e
         /\ srv' = [srv EXCEPT !.shutdown = "returned", !.ret = e]
    /\ hw' = "join"
    /\ UNCHANGED <<dvars, rvars, mvars, evars, ovars, svars, conf, ctxDone, nsig, sigc, hrun, herr, hres, gs, gc, grpcQuit,
                   grun, gres, gw, group, top, tres, httpInflight, rpcInflight,
                   logged, calls, wokeBusy, lateSig, firstFail>>


\* A variant of HWJoin without the receive from gc of lines 211-213.
HWJoin_NoWait ==
    /\ hw = "join"
    /\ hw' = "send"
    /\ UNCHANGED <<dvars, rvars, mvars, evars, ovars, svars, conf, ctxDone, nsig, sigc, hrun, herr, hres, hwErr, srv, gs, gc,
                   grpcQuit, grun, gres, gw, group, top, tres, httpInflight,
                   rpcInflight, logged, calls, wokeBusy, lateSig, firstFail>>

\* Lines 211-213: with an RPC engine, wait for gc to be closed.
HWJoin ==
    /\ hw = "join"
    /\ GrpcServerNil \/ gc = "closed"
    /\ hw' = "send"
    /\ UNCHANGED <<dvars, rvars, mvars, evars, ovars, svars, conf, ctxDone, nsig, sigc, hrun, herr, hres, hwErr, srv, gs, gc,
                   grpcQuit, grun, gres, gw, group, top, tres, httpInflight,
                   rpcInflight, logged, calls, wokeBusy, lateSig, firstFail>>

\* ---- grpcServer.GracefulStop: line 206 (shared mode), line 141 (split mode) ----

\* GracefulStop is entered: the engine stops accepting.
GracefulStopBegin ==
    /\ gs = "called"
    /\ gs' = "running"
    /\ grpcQuit' = TRUE
    /\ calls' = [calls EXCEPT !.gracefulStop = @ + 1]
    /\ UNCHANGED <<dvars, rvars, mvars, evars, ovars, svars, conf, ctxDone, nsig, sigc, hrun, herr, hres, hw, hwErr, srv, gc,
                   grun, gres, gw, group, top, tres, httpInflight, rpcInflight,
                   logged, wokeBusy, lateSig, firstFail>>

\* GracefulStop returns once no RPC is in flight; line 207 then closes gc.
GracefulStopReturn ==
    /\ gs = "running"
    /\ rpcInflight = 0
    /\ gs' = "returned"
    /\ gc' = IF Shared THEN "closed" ELSE gc
    /\ UNCHANGED <<dvars, rvars, mvars, evars, ovars, svars, conf, ctxDone, nsig, sigc, hrun, herr, hres, hw, hwErr, srv,
                   grpcQuit, grun, gres, gw, group, top, tres, httpInflight,
                   rpcInflight, logged, calls, wokeBusy, lateSig, firstFail>>

\* ---- grpcRun: lines 133-152 (split mode) ----

\* Lines 134-142: the goroutine is started.
GRunStart ==
    /\ grun = "start"
    /\ grun' = "listen"
    /\ gw' = "notify"
    /\ UNCHANGED <<dvars, rvars, mvars, evars, ovars, svars, conf, ctxDone, nsig, sigc, hrun, herr, hres, hw, hwErr, srv, gs, gc,
                   grpcQuit, gres, group, top, tres, httpInflight, rpcInflight,
                   logged, calls, wokeBusy, lateSig, firstFail>>

\* Lines 144-151: net.Listen fails and its error is returned; or the "started" line
\* is logged and grpcServer.Serve entered, which returns ErrServerStopped when the
\* engine was stopped before.
GRunListen ==
    /\ grun = "listen"
    /\ \/ /\ gres' = ErrBindGRPC
          /\ grun' = "done"
          /\ ReturnToGroup("grpc", ErrBindGRPC)
          /\ UNCHANGED logged
       \/ /\ grpcQuit
          /\ logged' = logged \cup {StartedGRPC}
          /\ gres' = ErrServerStopped
          /\ grun' = "done"
          /\ ReturnToGroup("grpc", ErrServerStopped)
       \/ /\ ~grpcQuit
          /\ logged' = logged \cup {StartedGRPC}
          /\ grun' = "serve"
          /\ UNCHANGED <<gres, group, firstFail>>
    /\ UNCHANGED <<dvars, rvars, mvars, evars, ovars, svars, conf, ctxDone, nsig, sigc, hrun, herr, hres, hw, hwErr, srv, gs, gc,
                   grpcQuit, gw, top, tres, httpInflight, rpcInflight,
                   calls, wokeBusy, lateSig>>

\* Line 151: Serve returns nil once GracefulStop has ended.
GRunServeReturn ==
    /\ grun = "serve"
    /\ gs = "returned"
    /\ gres' = Nil
    /\ grun' = "done"
    /\ ReturnToGroup("grpc", Nil)
    /\ UNCHANGED <<dvars, rvars, mvars, evars, ovars, svars, conf, ctxDone, nsig, sigc, hrun, herr, hres, hw, hwErr, srv, gs, gc,
                   grpcQuit, gw, top, tres, httpInflight, rpcInflight,
                   logged, calls, wokeBusy, lateSig>>

\* Lines 135-136: signal.Notify registers the goroutine's channel c.
GWNotify ==
    /\ gw = "notify"
    /\ gw' = "select"
    /\ sigc' = [sigc EXCEPT !["grpc"].registered = TRUE]
    /\ UNCHANGED <<dvars, rvars, mvars, evars, ovars, svars, conf, ctxDone, nsig, hrun, herr, hres, hw, hwErr, srv, gs, gc,
                   grpcQuit, grun, gres, group, top, tres, httpInflight, rpcInflight,
                   logged, calls, wokeBusy, lateSig, firstFail>>

\* Lines 137-141: the select takes a buffered signal or sees ctx done, and
\* GracefulStop is called.
GWWake ==
    /\ gw = "select"
    /\ \/ /\ sigc["grpc"].buf > 0
          /\ sigc' = [sigc EXCEPT !["grpc"].buf = @ - 1]
       \/ /\ RunCtxDone
          /\ UNCHANGED sigc
    /\ gw' = "woken"
    /\ gs' = "called"
    /\ UNCHANGED <<dvars, rvars, mvars, evars, ovars, svars, conf, ctxDone, nsig, hrun, herr, hres, hw, hwErr, srv, gc,
                   grpcQuit, grun, gres, group, top, tres, httpInflight, rpcInflight,
                   logged, calls, wokeBusy, lateSig, firstFail>>

\* ---- the composed run: lines 158-163 ----


\* A variant of GroupWait that returns as soon as one goroutine has finished.
GroupWait_First ==
    /\ top = "wait"
    /\ group.finished # {}
    /\ top' = "done"
    /\ tres' = group.err
    /\ group' = [group EXCEPT !.cancelled = TRUE]
    /\ UNCHANGED <<dvars, rvars, mvars, evars, ovars, svars, conf, ctxDone, nsig, sigc, hrun, herr, hres, hw, hwErr, srv, gs, gc,
                   grpcQuit, grun, gres, gw, httpInflight, rpcInflight,
                   logged, calls, wokeBusy, lateSig, firstFail>>

\* errgroup.Group.Wait: every goroutine has finished; the context is cancelled.
GroupWait ==
    /\ top = "wait"
    /\ group.finished = Sides
    /\ top' = "done"
    /\ tres' = group.err
    /\ group' = [group EXCEPT !.cancelled = TRUE]
    /\ UNCHANGED <<dvars, rvars, mvars, evars, ovars, svars, conf, ctxDone, nsig, sigc, hrun, herr, hres, hw, hwErr, srv, gs, gc,
                   grpcQuit, grun, gres, gw, httpInflight, rpcInflight,
                   logged, calls, wokeBusy, lateSig, firstFail>>

\* ---- the environment ----

\* The caller cancels the context given to run.
CancelCtx ==
    /\ ~ctxDone
    /\ ctxDone' = TRUE
    /\ UNCHANGED <<dvars, rvars, mvars, evars, ovars, svars, conf, nsig, sigc, hrun, herr, hres, hw, hwErr, srv, gs, gc,
                   grpcQuit, grun, gres, gw, group, top, tres, httpInflight,
                   rpcInflight, logged, calls, wokeBusy, lateSig, firstFail>>

\* os/signal hands a signal to a channel registered for it without blocking: a
\* channel of capacity 1 (lines 135, 195; context.go line 22) takes it when empty.
Deliver(ch) ==
    IF ch.registered /\ ch.buf = 0 THEN [ch EXCEPT !.buf = 1, !.got = TRUE] ELSE ch


\* A variant of Signal that hands the signal to one registered channel only, as a
\* queue shared by the listeners would.
Signal_OneReceiver ==
    /\ nsig < MaxSignals
    /\ nsig' = nsig + 1
    /\ \/ \E w \in Sides :
            /\ sigc[w].registered
            /\ sigc' = [sigc EXCEPT ![w] = Deliver(sigc[w])]
            /\ UNCHANGED sc
       \/ \E i \in DOMAIN sc :
            /\ sc[i].registered
            /\ sc' = [sc EXCEPT ![i] = Deliver(sc[i])]
            /\ UNCHANGED sigc
    /\ lateSig' = (lateSig \/ (nsig >= 1 /\ (srv.inShutdown \/ grpcQuit)))
    /\ UNCHANGED <<dvars, rvars, mvars, evars, ovars, conf, ctxDone, hrun, herr, hres, hw, hwErr, srv, gs, gc,
                   grpcQuit, grun, gres, gw, group, top, tres, httpInflight,
                   rpcInflight, logged, calls, wokeBusy, firstFail>>

\* SIGINT or SIGTERM is delivered: every channel registered for it gets the signal
\* (the watchers' channels and those of SignalContext all are). A signal that finds
\* no registered channel ends the process and is not part of the model.
Signal ==
    /\ nsig < MaxSignals
    /\ \/ \E w \in Sides : sigc[w].registered
       \/ \E i \in DOMAIN sc : sc[i].registered
       \/ oc.registered
    /\ nsig' = nsig + 1
    /\ sigc' = [w \in Sides |-> Deliver(sigc[w])]
    /\ sc' = [i \in DOMAIN sc |-> Deliver(sc[i])]
    /\ oc' = Deliver(oc)
    /\ olate' = (olate \/ ow \in {"woken", "shutdown", "send", "done"})
    /\ lateSig' = (lateSig \/ (nsig >= 1 /\ (srv.inShutdown \/ grpcQuit)))
    /\ UNCHANGED <<ctxKind, orun, ores, ow, osecond, shutdownCtx, osrv, oinflight>>
    /\ UNCHANGED <<dvars, rvars, mvars, evars, conf, ctxDone, hrun, herr, hres, hw, hwErr, srv, gs, gc,
                   grpcQuit, grun, gres, gw, group, top, tres, httpInflight,
                   rpcInflight, logged, calls, wokeBusy, firstFail>>

\* A request arrives on the HTTP listener and srv.Handler routes it: to the RPC
\* engine (which takes it unless stopped) or to the HTTP handler.
HttpRequest ==
    /\ hrun = "serve"
    /\ ~srv.inShutdown
    /\ \E r \in Requests :
         LET c == dispatch(GrpcServerNil, r) IN
         \/ /\ c.grpc = 1
            /\ ~grpcQuit
            /\ rpcInflight < MaxInflight
            /\ rpcInflight' = rpcInflight + 1
            /\ UNCHANGED httpInflight
         \/ /\ c.http = 1
            /\ httpInflight < MaxInflight
            /\ httpInflight' = httpInflight + 1
            /\ UNCHANGED rpcInflight
    /\ UNCHANGED <<dvars, rvars, mvars, evars, ovars, svars, conf, ctxDone, nsig, sigc, hrun, herr, hres, hw, hwErr, srv, gs, gc,
                   grpcQuit, grun, gres, gw, group, top, tres,
                   logged, calls, wokeBusy, lateSig, firstFail>>

\* An RPC arrives on the RPC listener (split mode).
RpcRequest ==
    /\ grun = "serve"
    /\ ~grpcQuit
    /\ rpcInflight < MaxInflight
    /\ rpcInflight' = rpcInflight + 1
    /\ UNCHANGED <<dvars, rvars, mvars, evars, ovars, svars, conf, ctxDone, nsig, sigc, hrun, herr, hres, hw, hwErr, srv, gs, gc,
                   grpcQuit, grun, gres, gw, group, top, tres, httpInflight,
                   logged, calls, wokeBusy, lateSig, firstFail>>

\* An HTTP handler returns.
HttpHandlerDone ==
    /\ httpInflight > 0
    /\ httpInflight' = httpInflight - 1
    /\ UNCHANGED <<dvars, rvars, mvars, evars, ovars, svars, conf, ctxDone, nsig, sigc, hrun, herr, hres, hw, hwErr, srv, gs, gc,
                   grpcQuit, grun, gres, gw, group, top, tres, rpcInflight,
                   logged, calls, wokeBusy, lateSig, firstFail>>

\* An RPC handler returns.
RpcHandlerDone ==
    /\ rpcInflight > 0
    /\ rpcInflight' = rpcInflight - 1
    /\ UNCHANGED <<dvars, rvars, mvars, evars, ovars, svars, conf, ctxDone, nsig, sigc, hrun, herr, hres, hw, hwErr, srv, gs, gc,
                   grpcQuit, grun, gres, gw, group, top, tres, httpInflight,
                   logged, calls, wokeBusy, lateSig, firstFail>>

\* Steps of the program, and steps of its environment.
Program ==
    \/ HRunStart \/ HRunListen \/ HRunServeClosed \/ HRunRecv
    \/ HWNotify \/ HWWake \/ HWShutdown \/ HWShutdownReturn \/ HWJoin
    \/ GracefulStopBegin \/ GracefulStopReturn
    \/ GRunStart \/ GRunListen \/ GRunServeReturn \/ GWNotify \/ GWWake
    \/ GroupWait

Environment ==
    \/ CancelCtx \/ Signal
    \/ HttpRequest \/ RpcRequest \/ HttpHandlerDone \/ RpcHandlerDone

(***************************************************************************)
(* Service runner: Run(ctx, svc), lines 13-26 of the file that declares    *)
(* Service. svc is an input of Run: an implementation of the interface     *)
(* whose Run and whose Shutdown each return some error, at any time, or    *)
(* block forever.                                                          *)
(***************************************************************************)
RunErrs == {Nil, ErrServerClosed, "run: failed"}
ShutdownErrs == {Nil, "shutdown: failed", "shutdown: deadline exceeded"}
Pending == "pending"
Blocks == "blocks"

\* The implementations of Service that Run is given.
Services == [run : RunErrs \cup {Blocks}, shutdown : ShutdownErrs \cup {Blocks}]

\* A service on which no method has been called.
NewService(impl) ==
    [run |-> impl.run, shutdown |-> impl.shutdown,
     runCalls |-> 0, runRet |-> Pending,
     shutdownCalls |-> 0, shutdownRet |-> Pending]

RInit ==
    /\ rctxDone \in BOOLEAN
    /\ rmain = "start"
    /\ rerr = Nil
    /\ rret = Nil
    /\ rgo = "idle"
    /\ errc = Nil
    /\ svc \in {NewService(impl) : impl \in Services}
    /\ branch = "none"

RIdle ==
    /\ rctxDone = FALSE
    /\ rmain = "idle"
    /\ rerr = Nil
    /\ rret = Nil
    /\ rgo = "idle"
    /\ errc = Nil
    /\ svc = NewService([run |-> Blocks, shutdown |-> Blocks])
    /\ branch = "none"

\* Lines 14-17: errc is made and the goroutine started.
RunStart ==
    /\ rmain = "start"
    /\ rmain' = "select"
    /\ rgo' = "start"
    /\ UNCHANGED <<dvars, lvars, mvars, svars, evars, ovars, rctxDone, rerr, rret, errc, svc, branch>>

\* Line 16: the goroutine calls svc.Run.
SvcRunCall ==
    /\ rgo = "start"
    /\ rgo' = "run"
    /\ svc' = [svc EXCEPT !.runCalls = @ + 1]
    /\ UNCHANGED <<dvars, lvars, mvars, svars, evars, ovars, rctxDone, rmain, rerr, rret, errc, branch>>

\* Line 16: svc.Run returns, and the goroutine offers its error on errc.
SvcRunReturn ==
    /\ rgo = "run"
    /\ svc.run # Blocks
    /\ errc' = svc.run
    /\ svc' = [svc EXCEPT !.runRet = svc.run]
    /\ rgo' = "send"
    /\ UNCHANGED <<dvars, lvars, mvars, svars, evars, ovars, rctxDone, rmain, rerr, rret, branch>>

\* Lines 21-22: the select sees ctx done and svc.Shutdown is called.
RunSelectCtx ==
    /\ rmain = "select"
    /\ rctxDone
    /\ rmain' = "shutdown"
    /\ branch' = "ctx"
    /\ svc' = [svc EXCEPT !.shutdownCalls = @ + 1]
    /\ UNCHANGED <<dvars, lvars, mvars, svars, evars, ovars, rctxDone, rerr, rret, rgo, errc>>

\* Line 22: svc.Shutdown returns and its error is assigned to err.
SvcShutdownReturn ==
    /\ rmain = "shutdown"
    /\ svc.shutdown # Blocks
    /\ rerr' = svc.shutdown
    /\ svc' = [svc EXCEPT !.shutdownRet = svc.shutdown]
    /\ rmain' = "return"
    /\ UNCHANGED <<dvars, lvars, mvars, svars, evars, ovars, rctxDone, rret, rgo, errc, branch>>


\* A variant of RunSelectErrc that calls svc.Shutdown after svc.Run has returned.
RunSelectErrc_Shutdown ==
    /\ rmain = "select"
    /\ rgo = "send"
    /\ rerr' = errc
    /\ rgo' = "done"
    /\ rmain' = "return"
    /\ branch' = "errc"
    /\ svc' = [svc EXCEPT !.shutdownCalls = @ + 1]
    /\ UNCHANGED <<dvars, lvars, mvars, svars, evars, ovars, rctxDone, rret, errc>>

\* Line 23: the select receives svc.Run's error from the unbuffered errc.
RunSelectErrc ==
    /\ rmain = "select"
    /\ rgo = "send"
    /\ rerr' = errc
    /\ rgo' = "done"
    /\ rmain' = "return"
    /\ branch' = "errc"
    /\ UNCHANGED <<dvars, lvars, mvars, svars, evars, ovars, rctxDone, rret, errc, svc>>


\* A variant of RunReturn that first waits for the goroutine to end.
RunReturn_Joins ==
    /\ rmain = "return"
    /\ rgo = "done"
    /\ rmain' = "done"
    /\ rret' = rerr
    /\ UNCHANGED <<dvars, lvars, mvars, svars, evars, ovars, rctxDone, rerr, rgo, errc, svc, branch>>

\* Line 25: return err.
RunReturn ==
    /\ rmain = "return"
    /\ rmain' = "done"
    /\ rret' = rerr
    /\ UNCHANGED <<dvars, lvars, mvars, svars, evars, ovars, rctxDone, rerr, rgo, errc, svc, branch>>

\* The caller's ctx is cancelled.
RunCancel ==
    /\ ~rctxDone
    /\ rctxDone' = TRUE
    /\ UNCHANGED <<dvars, lvars, mvars, svars, evars, ovars, rmain, rerr, rret, rgo, errc, svc, branch>>

\* Steps of Run itself, and steps of the service and the caller.
RunProgram == RunStart \/ SvcRunCall \/ RunSelectCtx \/ RunSelectErrc \/ RunReturn

RunEnvironment == SvcRunReturn \/ SvcShutdownReturn \/ RunCancel

(***************************************************************************)
(* Request middleware: httpMid and corsAllowAll (the file that declares    *)
(* RunHTTP), logMid (the HTTP-only Conf.Server), WithCORS (the Server      *)
(* options), and the handlers Conf.Server installs (usvc.go lines 108-110, *)
(* 127-130, 153, 168-182).                                                 *)
(*                                                                         *)
(* A handler is the sequence of its wrappers, outermost first, ending in   *)
(* the mux "m". Serving a request yields a record of what was done: calls  *)
(* of the mux and of the RPC engine, latency samples, log lines, the       *)
(* status written, the response headers, the wrappers entered in order,    *)
(* and whether the mux's handler panicked.                                 *)
(***************************************************************************)
Methods == {"GET", "POST", "OPTIONS", "DELETE"}
Paths == {"/health", "/metrics", "/api"}
Origins == {"", "https://app.example.com", "https://evil.test"}
LogLevels == {"debug", "info"}

\* The requests served through the middleware; Panics: the mux's handler for this
\* request panics.
MidRequests ==
    [ Method : Methods, Path : Paths, Origin : Origins,
      ProtoMajor : {1, 2}, ContentType : {"application/grpc", "application/json"},
      Panics : BOOLEAN ]

\* The arguments of WithCORS.
CorsArgs ==
    [ allowedMethods : {<<"GET", "POST">>, <<"GET">>},
      allowedSuffix  : {<<"*">>, <<".example.com">>, <<>>} ]

\* What Conf.Server installs: h of lines 109-110, and sharedServer's dispatcher
\* around it (lines 127-130); the HTTP-only Conf.Server's chain; the wrappers alone.
ChainHTTP == <<"corsAllowAll", "httpMid", "m">>
ChainShared == <<"dispatch">> \o ChainHTTP
ChainOld == <<"corsAllowAll", "logMid", "m">>
Handlers ==
    { ChainHTTP, ChainShared, ChainOld,
      <<"httpMid", "m">>, <<"logMid", "m">>, <<"corsAllowAll", "m">>,
      <<"WithCORS", "m">> }

NoEffects ==
    [ inner |-> 0, grpc |-> 0, latency |-> 0, logs |-> 0, status |-> 0,
      headers |-> {}, trace |-> <<>>, panic |-> FALSE ]

\* No request has been served yet.
NoRequest ==
    [ req |-> [ Method |-> "", Path |-> "", Origin |-> "", ProtoMajor |-> 0,
                ContentType |-> "", Panics |-> FALSE ],
      eff |-> NoEffects ]

\* w.Header().Set(k, v)
HeaderSet(e, k, v) ==
    [e EXCEPT !.headers = {p \in @ : p[1] # k} \cup {<<k, v>>}]

\* w.Header().Add(k, v)
HeaderAdd(e, k, v) == [e EXCEPT !.headers = @ \cup {<<k, v>>}]

\* w.WriteHeader(code): the first status written stands.
WriteHeader(e, code) == [e EXCEPT !.status = IF @ = 0 THEN code ELSE @]

Enter(e, name) == [e EXCEPT !.trace = Append(@, name)]

\* strings.HasSuffix
HasSuffix(s, suffix) ==
    /\ Len(s) >= Len(suffix)
    /\ SubSeq(s, Len(s) - Len(suffix) + 1, Len(s)) = suffix

\* strings.Join(elems, sep)
RECURSIVE Join(_, _)
Join(elems, sep) ==
    IF elems = <<>> THEN ""
    ELSE IF Len(elems) = 1 THEN elems[1]
    ELSE elems[1] \o sep \o Join(Tail(elems), sep)

\* The mux m and the handler registered for the request's path: it is called, and
\* answers 200 unless it panics.
MuxServeHTTP(r, e) ==
    LET e1 == [Enter(e, "m") EXCEPT !.inner = @ + 1]
    IN  IF r.Panics THEN [e1 EXCEPT !.panic = TRUE] ELSE WriteHeader(e1, 200)

\* zerolog: log.Debug() yields an event that Msg writes only when the logger's
\* level admits debug.
LogDebug(e) == [e EXCEPT !.logs = @ + (IF level = "debug" THEN 1 ELSE 0)]

\* latency.Record
LatencyRecord(e) == [e EXCEPT !.latency = @ + 1]

RECURSIVE ServeHTTP(_, _, _)


\* A variant of httpMid without the exempt-path switch of lines 27-31.
httpMid_NoExempt(h, r, e) ==
    LogDebug(LatencyRecord(ServeHTTP(h, r, Enter(e, "httpMid"))))

\* httpMid's HandlerFunc: the deferred function of lines 40-49 runs when
\* h.ServeHTTP returns and also when it panics.
httpMid(h, r, e) ==
    IF r.Path \in {"/metrics", "/health"}
    THEN ServeHTTP(h, r, Enter(e, "httpMid"))
    ELSE LogDebug(LatencyRecord(ServeHTTP(h, r, Enter(e, "httpMid"))))

\* logMid's HandlerFunc (the HTTP-only Conf.Server).
logMid(h, r, e) ==
    IF r.Path \in {"/metrics", "/health"}
    THEN ServeHTTP(h, r, Enter(e, "logMid"))
    ELSE LogDebug(LatencyRecord(ServeHTTP(h, r, Enter(e, "logMid"))))

\* The three headers corsAllowAll sets.
AllowAllHeaders(e) ==
    HeaderSet(HeaderSet(HeaderSet(e,
        "Access-Control-Allow-Origin", "*"),
        "Access-Control-Allow-Methods", "GET, POST"),
        "Access-Control-Max-Age", "86400")


\* A variant of corsAllowAll whose OPTIONS case sets the headers and falls through
\* to h.ServeHTTP.
corsAllowAll_OptionsForwards(h, r, e) ==
    LET e1 == Enter(e, "corsAllowAll") IN
    CASE r.Method \in {"GET", "POST", "OPTIONS"} -> ServeHTTP(h, r, AllowAllHeaders(e1))
      [] OTHER -> WriteHeader(e1, 405)

\* corsAllowAll's HandlerFunc.
corsAllowAll(h, r, e) ==
    LET e1 == Enter(e, "corsAllowAll") IN
    CASE r.Method = "OPTIONS" -> WriteHeader(AllowAllHeaders(e1), 204)
      [] r.Method \in {"GET", "POST"} -> ServeHTTP(h, r, AllowAllHeaders(e1))
      [] OTHER -> WriteHeader(e1, 405)

\* WithCORS: allowAllOrigin of lines 98-101.
allowAllOrigin ==
    Len(cors.allowedSuffix) = 1 /\ cors.allowedSuffix[1] = "*"

\* WithCORS: the closure as of lines 102-112.
as(o) ==
    IF allowAllOrigin THEN "*"
    ELSE IF \E i \in DOMAIN cors.allowedSuffix : HasSuffix(o, cors.allowedSuffix[i])
         THEN o
         ELSE ""

\* WithCORS: the HandlerFunc of lines 116-134. The OPTIONS branch that sets the
\* headers does not return: control reaches h.ServeHTTP of line 133.
WithCORS(h, r, e) ==
    LET e1 == Enter(e, "WithCORS")
        o  == as(r.Origin)
        e2 == HeaderSet(HeaderSet(HeaderSet(e1,
                  "Access-Control-Allow-Origin", o),
                  "Access-Control-Allow-Methods", Join(cors.allowedMethods, ", ")),
                  "Access-Control-Max-Age", "86400")
        e3 == IF o = "*" THEN HeaderAdd(e2, "Vary", "Origin") ELSE e2
    IN  IF r.Method = "OPTIONS"
        THEN IF o = "" THEN WriteHeader(e1, 403) ELSE ServeHTTP(h, r, e3)
        ELSE IF \A i \in DOMAIN cors.allowedMethods : cors.allowedMethods[i] # r.Method
             THEN WriteHeader(e1, 405)
             ELSE ServeHTTP(h, r, e1)

\* sharedServer's dispatcher in front of h (lines 169-175, engine not nil): the RPC
\* engine's ServeHTTP, or h.
sharedDispatch(h, r, e) ==
    LET e1 == Enter(e, "dispatch") IN
    IF dispatch(FALSE, r).grpc = 1
    THEN [Enter(e1, "grpc") EXCEPT !.grpc = @ + 1]
    ELSE ServeHTTP(h, r, e1)

\* http.Handler.ServeHTTP of the handler h.
ServeHTTP(h, r, e) ==
    CASE Head(h) = "m" -> MuxServeHTTP(r, e)
      [] Head(h) = "httpMid" -> httpMid(Tail(h), r, e)
      [] Head(h) = "logMid" -> logMid(Tail(h), r, e)
      [] Head(h) = "corsAllowAll" -> corsAllowAll(Tail(h), r, e)
      [] Head(h) = "WithCORS" -> WithCORS(Tail(h), r, e)
      [] Head(h) = "dispatch" -> sharedDispatch(Tail(h), r, e)

MInit ==
    /\ level \in LogLevels
    /\ cors \in CorsArgs
    /\ handler \in Handlers
    /\ handled = NoRequest

MIdle ==
    /\ level = "debug"
    /\ cors = [allowedMethods |-> <<"GET", "POST">>, allowedSuffix |-> <<"*">>]
    /\ handler = <<"m">>
    /\ handled = NoRequest

\* The server calls srv.Handler.ServeHTTP(w, r) for one request. The wrappers keep
\* no state between requests, so one request is followed per behaviour.
ServeMid ==
    /\ handled = NoRequest
    /\ \E r \in MidRequests :
         handled' = [req |-> r, eff |-> ServeHTTP(handler, r, NoEffects)]
    /\ UNCHANGED <<dvars, lvars, rvars, svars, evars, ovars, level, cors, handler>>

(***************************************************************************)
(* Cancellation source: SignalContext, context.go lines 19-28. Each call    *)
(* makes a context and starts a goroutine that registers a channel of      *)
(* capacity 1 for Signals and the extra signals, receives one signal and   *)
(* cancels the context.                                                    *)
(***************************************************************************)
ExtraSignals == {"SIGHUP"}

\* The calls of SignalContext, in the order they are made.
Contexts == 1..MaxContexts

\* A call of SignalContext that has not been made yet.
NotCalled ==
    [ go |-> "uncalled", sigs |-> {}, registered |-> FALSE, buf |-> 0, got |-> FALSE,
      done |-> FALSE ]

\* The sigs arguments of the calls are inputs.
SInit ==
    sc \in [Contexts -> {[NotCalled EXCEPT !.sigs = sigs] : sigs \in SUBSET ExtraSignals}]

\* Every call is SignalContext(), without extra signals.
SIdle == sc = [i \in Contexts |-> NotCalled]

\* Lines 19-21, 27: SignalContext(sigs...) makes ctx, starts the goroutine and
\* returns ctx. Calls are numbered in the order they are made.
SignalContext ==
    /\ \E i \in DOMAIN sc :
         /\ sc[i].go = "uncalled"
         /\ \A j \in DOMAIN sc : j < i => sc[j].go # "uncalled"
         /\ sc' = [sc EXCEPT ![i].go = "notify"]
    /\ UNCHANGED <<dvars, lvars, rvars, mvars, evars, ovars>>

\* Lines 22-23: the goroutine registers its channel c.
SCNotify ==
    /\ \E i \in DOMAIN sc :
         /\ sc[i].go = "notify"
         /\ sc' = [sc EXCEPT ![i].go = "recv", ![i].registered = TRUE]
    /\ UNCHANGED <<dvars, lvars, rvars, mvars, evars, ovars>>

\* Line 24: <-c takes the buffered signal.
SCRecv ==
    /\ \E i \in DOMAIN sc :
         /\ sc[i].go = "recv"
         /\ sc[i].buf > 0
         /\ sc' = [sc EXCEPT ![i].go = "cancel", ![i].buf = @ - 1]
    /\ UNCHANGED <<dvars, lvars, rvars, mvars, evars, ovars>>


\* A variant of SCCancel in which the goroutine ends without calling cancel.
SCCancel_NoCancel ==
    /\ \E i \in DOMAIN sc :
         /\ sc[i].go = "cancel"
         /\ sc' = [sc EXCEPT ![i].go = "done"]
    /\ UNCHANGED <<dvars, lvars, rvars, mvars, evars, ovars>>

\* Lines 25-26: cancel() makes ctx done, and the goroutine ends.
SCCancel ==
    /\ \E i \in DOMAIN sc :
         /\ sc[i].go = "cancel"
         /\ sc' = [sc EXCEPT ![i].go = "done", ![i].done = TRUE]
    /\ UNCHANGED <<dvars, lvars, rvars, mvars, evars, ovars>>

\* A signal outside Signals is delivered: the channels of the calls that asked for
\* it get it (a delivery that finds all of them full changes nothing). With no
\* such channel the process ends.
SignalOther ==
    /\ \E s \in ExtraSignals :
         /\ \E i \in DOMAIN sc : s \in sc[i].sigs /\ Deliver(sc[i]) # sc[i]
         /\ sc' = [i \in DOMAIN sc |->
                     IF s \in sc[i].sigs THEN Deliver(sc[i]) ELSE sc[i]]
    /\ UNCHANGED <<dvars, lvars, rvars, mvars, evars, ovars>>

SigProgram == SignalContext \/ SCNotify \/ SCRecv \/ SCCancel

(***************************************************************************)
(* Entry points: Conf.RunHTTP (lines 13-23 of the file that declares       *)
(* httpMid) and Conf.Server called directly (usvc.go lines 86-164),        *)
(* followed by the run function it returned.                               *)
(***************************************************************************)
Entries == {"Server", "RunHTTP"}

EInit == caller \in [entry : Entries, conf : [HTTPAddr : {":8080"}, GRPCAddr : Addrs]]

\* Conf.Server was called directly, on the Conf the coordinator runs with.
EIdle == caller = [entry |-> "Server", conf |-> conf]

\* c.Server(m) builds the coordinator for c, and run(ctx) is invoked: lines 127-130
\* (shared: sharedServer's run) or 133-163 (split: the composed run).
ServerRun(c) ==
    /\ hrun = "idle"
    /\ conf' = c
    /\ hrun' = "start"
    /\ grun' = IF c.GRPCAddr = c.HTTPAddr THEN "idle" ELSE "start"
    /\ top' = IF c.GRPCAddr = c.HTTPAddr THEN "idle" ELSE "wait"
    /\ UNCHANGED <<dvars, rvars, mvars, svars, evars, ovars, ctxDone, nsig, sigc, herr, hres, hw, hwErr,
                   srv, gs, gc, grpcQuit, gres, gw, group, tres, httpInflight,
                   rpcInflight, logged, calls, wokeBusy, lateSig, firstFail>>

\* The caller calls c.Server(m) and then run(ctx).
ConfServer ==
    /\ caller.entry = "Server"
    /\ ServerRun(caller.conf)


\* A variant of RunHTTP without lines 15-17.
RunHTTP_NoNormalise ==
    /\ caller.entry = "RunHTTP"
    /\ ServerRun(caller.conf)

\* RunHTTP: lines 15-17 overwrite GRPCAddr in the receiver's copy of the Conf, and
\* lines 18-22 call c.Server(m) and run(ctx).
RunHTTP ==
    /\ caller.entry = "RunHTTP"
    /\ LET c == IF caller.conf.GRPCAddr # caller.conf.HTTPAddr
                THEN [caller.conf EXCEPT !.GRPCAddr = caller.conf.HTTPAddr]
                ELSE caller.conf
       IN  ServerRun(c)

(***************************************************************************)
(* HTTP-only coordinator: the run function of the earlier Conf.Server      *)
(* (the file that declares logMid, lines 134-162). Its shutdown goroutine  *)
(* gives srv.Shutdown a context that expires after 5 s and starts one more *)
(* goroutine that cancels that context when it receives from c.            *)
(***************************************************************************)
ErrCanceled == "context canceled"
ErrDeadlineExceeded == "context deadline exceeded"

CtxKinds == {"plain", "signal"}

\* The ctx given to run is done: the caller cancelled it, or it is the context of
\* the first SignalContext call and that call's goroutine cancelled it.
OldCtxDone == IF ctxKind = "signal" THEN sc[1].done ELSE ctxDone

NoChannel == [registered |-> FALSE, buf |-> 0, got |-> FALSE]

OInit ==
    /\ ctxKind \in CtxKinds
    /\ orun = "start"
    /\ ores = Nil
    /\ ow = "idle"
    /\ oc = NoChannel
    /\ osecond = "idle"
    /\ shutdownCtx = "none"
    /\ osrv = [inShutdown |-> FALSE, shutdown |-> "none", ret |-> Nil]
    /\ oinflight = 0
    /\ olate = FALSE

OIdle ==
    /\ ctxKind = "plain"
    /\ orun = "idle"
    /\ ores = Nil
    /\ ow = "idle"
    /\ oc = NoChannel
    /\ osecond = "idle"
    /\ shutdownCtx = "none"
    /\ osrv = [inShutdown |-> FALSE, shutdown |-> "none", ret |-> Nil]
    /\ oinflight = 0
    /\ olate = FALSE

\* The caller made ctx before calling run: with SignalContext() (context.go lines
\* 19-21, 27: the goroutine is started), or without it.
OSInit ==
    sc = [i \in Contexts |->
            IF i = 1 /\ ctxKind = "signal"
            THEN [NotCalled EXCEPT !.go = "notify"]
            ELSE NotCalled]

\* Lines 135-150: se is made and the shutdown goroutine started.
OldRunStart ==
    /\ orun = "start"
    /\ orun' = "listen"
    /\ ow' = "notify"
    /\ UNCHANGED <<dvars, lvars, rvars, mvars, svars, evars,
                   ctxKind, ores, oc, osecond, shutdownCtx, osrv, oinflight, olate>>

\* Lines 152-161: ListenAndServe returns ErrServerClosed at once when Shutdown was
\* already called, or the bind error (returned unchanged), or it serves.
OldRunListen ==
    /\ orun = "listen"
    /\ \/ /\ osrv.inShutdown
          /\ orun' = "recv"
          /\ UNCHANGED ores
       \/ /\ ~osrv.inShutdown
          /\ orun' = "done"
          /\ ores' = ErrBindHTTP
       \/ /\ ~osrv.inShutdown
          /\ orun' = "serve"
          /\ UNCHANGED ores
    /\ UNCHANGED <<dvars, lvars, rvars, mvars, svars, evars,
                   ctxKind, ow, oc, osecond, shutdownCtx, osrv, oinflight, olate>>

\* Lines 156-158: the serve call ends with ErrServerClosed.
OldRunServeClosed ==
    /\ orun = "serve"
    /\ osrv.inShutdown
    /\ orun' = "recv"
    /\ UNCHANGED <<dvars, lvars, rvars, mvars, svars, evars,
                   ctxKind, ores, ow, oc, osecond, shutdownCtx, osrv, oinflight, olate>>

\* Line 159 with line 149: the unbuffered se hands Shutdown's error to run.
OldRunRecv ==
    /\ orun = "recv"
    /\ ow = "send"
    /\ ores' = osrv.ret
    /\ orun' = "done"
    /\ ow' = "done"
    /\ UNCHANGED <<dvars, lvars, rvars, mvars, svars, evars,
                   ctxKind, oc, osecond, shutdownCtx, osrv, oinflight, olate>>

\* Lines 138-139: signal.Notify registers c.
OldNotify ==
    /\ ow = "notify"
    /\ ow' = "select"
    /\ oc' = [oc EXCEPT !.registered = TRUE]
    /\ UNCHANGED <<dvars, lvars, rvars, mvars, svars, evars,
                   ctxKind, orun, ores, osecond, shutdownCtx, osrv, oinflight, olate>>

\* Lines 140-143: the select receives a signal from c, or sees ctx done; when both
\* are ready it takes either, and taking ctx.Done leaves the signal in c.
OldWake ==
    /\ ow = "select"
    /\ \/ /\ oc.buf > 0
          /\ oc' = [oc EXCEPT !.buf = @ - 1]
       \/ /\ OldCtxDone
          /\ UNCHANGED oc
    /\ ow' = "woken"
    /\ UNCHANGED <<dvars, lvars, rvars, mvars, svars, evars,
                   ctxKind, orun, ores, osecond, shutdownCtx, osrv, oinflight, olate>>

\* Lines 144-149: the 5 s context is made, the goroutine of lines 145-148 started
\* and srv.Shutdown(ctx) called.
OldShutdown ==
    /\ ow = "woken"
    /\ ow' = "shutdown"
    /\ shutdownCtx' = "live"
    /\ osecond' = "recv"
    /\ osrv' = [osrv EXCEPT !.inShutdown = TRUE, !.shutdown = "running"]
    /\ UNCHANGED <<dvars, lvars, rvars, mvars, svars, evars,
                   ctxKind, orun, ores, oc, oinflight, olate>>

\* Lines 146-147: <-c takes a signal from c and cancel() ends the 5 s context.
OldSecondSignal ==
    /\ osecond = "recv"
    /\ oc.buf > 0
    /\ oc' = [oc EXCEPT !.buf = @ - 1]
    /\ osecond' = "done"
    /\ shutdownCtx' = IF shutdownCtx = "live" THEN "cancelled" ELSE shutdownCtx
    /\ UNCHANGED <<dvars, lvars, rvars, mvars, svars, evars,
                   ctxKind, orun, ores, ow, osrv, oinflight, olate>>

\* Line 144: the 5 s pass.
OldTimeout ==
    /\ shutdownCtx = "live"
    /\ shutdownCtx' = "expired"
    /\ UNCHANGED <<dvars, lvars, rvars, mvars, svars, evars,
                   ctxKind, orun, ores, ow, oc, osecond, osrv, oinflight, olate>>

\* Line 149: srv.Shutdown returns when no request is in flight (nil or the
\* listeners' close error), or with the context's error when its context is done.
OldShutdownReturn ==
    /\ ow = "shutdown"
    /\ \E e \in {Nil, ErrClose, ErrCanceled, ErrDeadlineExceeded} :
         /\ e \in {Nil, ErrClose} => oinflight = 0
         /\ e = ErrCanceled => shutdownCtx = "cancelled"
         /\ e = ErrDeadlineExceeded => shutdownCtx = "expired"
         /\ osrv' = [osrv EXCEPT !.shutdown = "returned", !.ret = e]
    /\ ow' = "send"
    /\ UNCHANGED <<dvars, lvars, rvars, mvars, svars, evars,
                   ctxKind, orun, ores, oc, osecond, shutdownCtx, oinflight, olate>>

\* A request arrives and its handler starts.
OldRequest ==
    /\ orun = "serve"
    /\ ~osrv.inShutdown
    /\ oinflight < MaxInflight
    /\ oinflight' = oinflight + 1
    /\ UNCHANGED <<dvars, lvars, rvars, mvars, svars, evars,
                   ctxKind, orun, ores, ow, oc, osecond, shutdownCtx, osrv, olate>>

\* A handler returns.
OldHandlerDone ==
    /\ oinflight > 0
    /\ oinflight' = oinflight - 1
    /\ UNCHANGED <<dvars, lvars, rvars, mvars, svars, evars,
                   ctxKind, orun, ores, ow, oc, osecond, shutdownCtx, osrv, olate>>

OldProgram ==
    \/ OldRunStart \/ OldRunListen \/ OldRunServeClosed \/ OldRunRecv
    \/ OldNotify \/ OldWake \/ OldShutdown \/ OldSecondSignal \/ OldShutdownReturn
    \/ SCNotify \/ SCRecv \/ SCCancel

OldEnvironment ==
    \/ CancelCtx \/ Signal \/ OldTimeout \/ OldRequest \/ OldHandlerDone

(***************************************************************************)
(* Specifications                                                          *)
(***************************************************************************)
\* The dispatcher at rest (for the specifications that do not serve requests
\* through it) and the coordinator at rest.
DIdle == grpcNil = FALSE /\ served = <<>> /\ panicked = FALSE

LIdle ==
    /\ conf = [HTTPAddr |-> ":8080", GRPCAddr |-> ":8080"]
    /\ ctxDone = FALSE
    /\ nsig = 0
    /\ sigc = [w \in Sides |-> [registered |-> FALSE, buf |-> 0, got |-> FALSE]]
    /\ hrun = "idle"
    /\ herr = Nil
    /\ hres = Nil
    /\ hw = "idle"
    /\ hwErr = Nil
    /\ srv = [inShutdown |-> FALSE, shutdown |-> "none", ret |-> Nil]
    /\ gs = "none"
    /\ gc = "open"
    /\ grpcQuit = FALSE
    /\ grun = "idle"
    /\ gres = Nil
    /\ gw = "idle"
    /\ group = [err |-> Nil, cancelled |-> FALSE, finished |-> {}]
    /\ top = "idle"
    /\ tres = Nil
    /\ httpInflight = 0
    /\ rpcInflight = 0
    /\ logged = {}
    /\ calls = [shutdown |-> 0, gracefulStop |-> 0, stopGoroutines |-> 0]
    /\ wokeBusy = FALSE
    /\ lateSig = FALSE
    /\ firstFail = NoFail

DispatchInit == DInit /\ LIdle /\ RIdle /\ MIdle /\ SIdle /\ EIdle /\ OIdle
DispatchNext == ServeRequest
SpecDispatch == DispatchInit /\ [][DispatchNext]_vars

Init == LInit /\ DIdle /\ RIdle /\ MIdle /\ SIdle /\ EIdle /\ OIdle
Next == Program \/ Environment
Spec == Init /\ [][Next]_vars

\* The Go scheduler runs every goroutine that can take a step; nothing obliges the
\* environment to cancel, to signal, or a handler to return.
FairSpec == Spec /\ WF_vars(Program)

RunnerInit == RInit /\ DIdle /\ LIdle /\ MIdle /\ SIdle /\ EIdle /\ OIdle
RunnerNext == RunProgram \/ RunEnvironment
SpecRun == RunnerInit /\ [][RunnerNext]_vars

\* Run's own steps are taken when they can be; the service and the caller owe nothing.
FairSpecRun == SpecRun /\ WF_vars(RunProgram)

MidInit == MInit /\ DIdle /\ LIdle /\ RIdle /\ SIdle /\ EIdle /\ OIdle
MidNext == ServeMid
SpecMid == MidInit /\ [][MidNext]_vars

\* SignalContext is called while the coordinator's run starts its watchers: its
\* channels and theirs are registered with os/signal side by side. The steps of run
\* that do not touch a signal channel are left to Spec.
Watchers == HRunStart \/ HWNotify \/ HWWake \/ GRunStart \/ GWNotify \/ GWWake

SignalsInit == LInit /\ SIdle /\ DIdle /\ RIdle /\ MIdle /\ EIdle /\ OIdle
SignalsNext == SigProgram \/ Watchers \/ CancelCtx \/ Signal
SpecSignals == SignalsInit /\ [][SignalsNext]_vars
FairSpecSignals == SpecSignals /\ WF_vars(Watchers) /\ WF_vars(SigProgram)

\* The caller picks an entry point and a Conf; the coordinator then runs as in Spec.
EntryInit == EInit /\ LIdle /\ DIdle /\ RIdle /\ MIdle /\ SIdle /\ OIdle
EntryNext == ConfServer \/ RunHTTP \/ Program \/ Environment
SpecEntry == EntryInit /\ [][EntryNext]_vars

\* Calls of SignalContext on their own, with any sigs; signals of every kind arrive.
ContextsInit == SInit /\ DIdle /\ LIdle /\ RIdle /\ MIdle /\ EIdle /\ OIdle
ContextsNext == SigProgram \/ Signal \/ SignalOther
SpecContexts == ContextsInit /\ [][ContextsNext]_vars
FairSpecContexts == SpecContexts /\ WF_vars(SigProgram)

\* One invocation of the HTTP-only coordinator's run, with a ctx of either kind.
HTTPOnlyInit == OInit /\ OSInit /\ LIdle /\ DIdle /\ RIdle /\ MIdle /\ EIdle
HTTPOnlyNext == OldProgram \/ OldEnvironment
SpecHTTPOnly == HTTPOnlyInit /\ [][HTTPOnlyNext]_vars

(***************************************************************************)
(* Properties                                                              *)
(***************************************************************************)
\* The request carries the RPC marker: transport version 2 and a content type that
\* is "application/grpc" followed by anything.
HasGrpcMarker(r) ==
    /\ r.ProtoMajor = 2
    /\ \E rest \in {"", "+proto", "-web"} : r.ContentType = "application/grpc" \o rest

OnlyGrpc == [grpc |-> 1, http |-> 0, nilDeref |-> FALSE]
OnlyHttp == [grpc |-> 0, http |-> 1, nilDeref |-> FALSE]

\* C1: with an RPC engine configured, every request with ProtoMajor 2 and a content
\* type starting with "application/grpc" is handed to the engine's ServeHTTP exactly
\* once and never to the HTTP handler.
C1_MarkedRequestsReachEngine ==
    ~grpcNil =>
        \A i \in DOMAIN served :
            HasGrpcMarker(served[i].req) => served[i].calls = OnlyGrpc

C1_Witness ==
    /\ ~grpcNil
    /\ \E i \in DOMAIN served :
         /\ served[i].req = [ProtoMajor |-> 2, ContentType |-> "application/grpc+proto"]
         /\ served[i].calls.grpc = 1

\* C2: every request without the marker goes to the HTTP handler exactly once and
\* never to the engine; with no engine (nil) every request does, and the nil engine
\* is never dereferenced.
C2_OtherRequestsReachHandler ==
    /\ ~panicked
    /\ \A i \in DOMAIN served :
         (grpcNil \/ ~HasGrpcMarker(served[i].req)) => served[i].calls = OnlyHttp

C2_Witness ==
    /\ grpcNil
    /\ \E i, j \in DOMAIN served :
         /\ served[i].req = [ProtoMajor |-> 2, ContentType |-> "application/grpc"]
         /\ served[i].calls.http = 1
         /\ served[j].req = [ProtoMajor |-> 1, ContentType |-> "application/grpc"]
         /\ served[j].calls.http = 1

\* The run function Conf.Server returned has returned.
RunReturned == IF Shared THEN hrun = "done" ELSE top = "done"

\* C3: in shared mode, when the shutdown goroutine was woken while both engines had
\* work in flight (or, more generally, whenever the serve call ended with
\* server-closed), run has not returned unless both srv.Shutdown and
\* grpcServer.GracefulStop have returned.
C3_SharedRunJoinsBothDrains ==
    (Shared /\ hrun = "done" /\ (wokeBusy \/ herr = ErrServerClosed)) =>
        (srv.shutdown = "returned" /\ gs = "returned")

C3_Witness ==
    Shared /\ hrun = "done" /\ wokeBusy /\ calls.shutdown = 1 /\ calls.gracefulStop = 1

\* C4: in split mode the composed run has not returned unless httpRun and grpcRun
\* have both returned, and then neither side has a request in flight.
C4_SplitRunWaitsForBothSides ==
    (~Shared /\ top = "done") =>
        (hrun = "done" /\ grun = "done" /\ httpInflight = 0 /\ rpcInflight = 0)

C4_Witness ==
    /\ ~Shared /\ top = "done" /\ tres = Nil
    /\ calls.shutdown = 1 /\ calls.gracefulStop = 1
    /\ {StartedHTTP, StartedGRPC} \subseteq logged

\* C5: once graceful shutdown has begun, a second termination signal makes run
\* return eventually, even if a handler never finishes.
C5_SecondSignalForcesReturn == lateSig ~> RunReturned

\* C6: Run takes exactly one branch: it sees ctx done, calls svc.Shutdown once and
\* returns Shutdown's error, or it receives svc.Run's error and returns it without
\* calling svc.Shutdown. Shutdown is never called unless ctx is done.
C6_ExactlyOneBranch ==
    /\ svc.shutdownCalls <= 1
    /\ svc.shutdownCalls > 0 => rctxDone
    /\ rmain = "done" =>
         \/ branch = "ctx" /\ svc.shutdownCalls = 1 /\ rret = svc.shutdownRet
         \/ branch = "errc" /\ svc.shutdownCalls = 0 /\ rret = svc.runRet

C6_Witness ==
    /\ rmain = "done" /\ branch = "ctx"
    /\ svc.runRet = "run: failed"
    /\ rret = "shutdown: failed"

\* C7: once svc.Shutdown has returned, Run returns, even if svc.Run never does; and
\* once svc.Run has returned, Run returns, even if ctx is never cancelled.
C7_AbandonedBranchDoesNotBlock ==
    /\ (svc.shutdownRet # Pending) ~> (rmain = "done")
    /\ (svc.runRet # Pending) ~> (rmain = "done" \/ rctxDone)

C7_Witness ==
    rmain = "done" /\ branch = "ctx" /\ svc.run = Blocks /\ rgo = "run"

\* C8: sharedServer's run never returns ErrServerClosed: when the serve call ended
\* with it, run returns exactly what srv.Shutdown returned; any other serve error is
\* returned unchanged.
C8_ServerClosedIsFiltered ==
    hrun = "done" =>
        /\ hres # ErrServerClosed
        /\ herr = ErrServerClosed => (srv.shutdown = "returned" /\ hres = srv.ret)
        /\ herr # ErrServerClosed => hres = herr

C8_Witness ==
    hrun = "done" /\ herr = ErrServerClosed /\ hres = ErrClose /\ srv.ret = ErrClose

\* C9: in split mode, once one side has returned a non-nil error the group's context
\* is cancelled, the other side begins its graceful stop, and the composed run
\* returns the error of the side that failed first.
C9_FirstErrorStopsOtherSide ==
    /\ []((~Shared /\ firstFail # NoFail) => group.cancelled)
    /\ []((~Shared /\ top = "done" /\ firstFail # NoFail) => tres = firstFail.err)
    /\ (firstFail.side = "http") ~> grpcQuit
    /\ (firstFail.side = "grpc") ~> srv.inShutdown

C9_Witness ==
    /\ ~Shared /\ top = "done"
    /\ firstFail = [side |-> "http", err |-> ErrBindHTTP]
    /\ gres = ErrServerStopped
    /\ tres = ErrBindHTTP

\* C10: in split mode, when shutdown was requested by cancellation alone, no
\* listener failed to bind and both drains succeeded, the composed run returns nil.
C10_CancelledSplitRunReturnsNil ==
    ( /\ ~Shared /\ top = "done"
      /\ ctxDone /\ nsig = 0
      /\ hres # ErrBindHTTP /\ gres # ErrBindGRPC
      /\ srv.shutdown = "returned" /\ srv.ret = Nil
      /\ gs = "returned" )
    => tres = Nil

\* The wrapper named name was entered while the last request was served.
Entered(name) == \E i \in DOMAIN handled.eff.trace : handled.eff.trace[i] = name

ExemptPaths == {"/health", "/metrics"}

\* C11: a request for /health or /metrics that reaches httpMid or logMid, directly
\* or forwarded by the CORS wrapper, has the inner handler invoked exactly once, no
\* latency sample recorded and no access-log line emitted.
C11_ExemptPathsAreNotInstrumented ==
    ( /\ Entered("httpMid") \/ Entered("logMid")
      /\ handled.req.Path \in ExemptPaths )
    => ( /\ handled.eff.inner = 1
         /\ handled.eff.latency = 0
         /\ handled.eff.logs = 0 )

C11_Witness ==
    /\ handler = ChainHTTP /\ level = "debug"
    /\ handled.req.Path = "/health" /\ handled.req.Method = "GET"
    /\ Entered("corsAllowAll") /\ Entered("httpMid")
    /\ handled.eff.inner = 1 /\ handled.eff.status = 200

\* A request has been served.
Served == handled.eff.trace # <<>>

\* C12: a request for any other path served by the chain Conf.Server installs
\* (corsAllowAll around httpMid) produces exactly one latency sample and exactly one
\* log line, whatever the method, the log level and the response status.
C12_OneSampleAndOneLinePerRequest ==
    (handler = ChainHTTP /\ Served /\ handled.req.Path \notin ExemptPaths)
    => (handled.eff.latency = 1 /\ handled.eff.logs = 1)

\* How often the wrapper (or mux) named name was entered for the last request.
TimesEntered(name) ==
    Cardinality({i \in DOMAIN handled.eff.trace : handled.eff.trace[i] = name})

AllowAllHeaderSet ==
    { <<"Access-Control-Allow-Origin", "*">>,
      <<"Access-Control-Allow-Methods", "GET, POST">>,
      <<"Access-Control-Max-Age", "86400">> }

\* C13: corsAllowAll calls the handler it wraps exactly once for GET and POST, with
\* the three CORS headers set, and never for another method: OPTIONS is answered
\* directly (204) with the three headers, any other method with 405.
C13_CorsAllowAllForwardsOnlyGetAndPost ==
    (Served /\ Head(handler) = "corsAllowAll") =>
        LET n == TimesEntered(handler[2]) IN
        CASE handled.req.Method \in {"GET", "POST"} ->
                 n = 1 /\ AllowAllHeaderSet \subseteq handled.eff.headers
          [] handled.req.Method = "OPTIONS" ->
                 /\ n = 0 /\ handled.eff.inner = 0
                 /\ handled.eff.headers = AllowAllHeaderSet
                 /\ handled.eff.status = 204
          [] OTHER ->
                 n = 0 /\ handled.eff.inner = 0 /\ handled.eff.status = 405

C13_Witness ==
    /\ handler = <<"corsAllowAll", "m">>
    /\ handled.req.Method = "OPTIONS"
    /\ handled.eff.status = 204
    /\ handled.eff.inner = 0
    /\ handled.eff.headers = AllowAllHeaderSet

\* C14: WithCORS answers every OPTIONS request itself, without calling the inner
\* handler: with 403 when the origin matches no allowed suffix, otherwise with the
\* allow-origin, allow-methods and max-age (86400) headers; a request whose method
\* is not allowed is answered 405 without being forwarded.
C14_WithCorsAnswersPreflightItself ==
    (Served /\ Head(handler) = "WithCORS") =>
        LET o == as(handled.req.Origin) IN
        CASE handled.req.Method = "OPTIONS" ->
                 /\ handled.eff.inner = 0
                 /\ o = "" => handled.eff.status = 403
                 /\ o # "" =>
                      { <<"Access-Control-Allow-Origin", o>>,
                        <<"Access-Control-Allow-Methods", Join(cors.allowedMethods, ", ")>>,
                        <<"Access-Control-Max-Age", "86400">> }
                      \subseteq handled.eff.headers
          [] \A i \in DOMAIN cors.allowedMethods :
                 cors.allowedMethods[i] # handled.req.Method ->
                 handled.eff.inner = 0 /\ handled.eff.status = 405
          [] OTHER -> handled.eff.inner = 1

Watcher(w) == IF w = "http" THEN hw ELSE gw

\* C16: a termination signal is handed to every channel registered at that moment,
\* the watchers' and those of the SignalContext calls alike (each empty one holds it
\* afterwards); a signal leaves a channel only when the goroutine that owns the
\* channel takes it; and every listener that was handed a signal goes on: the
\* SignalContext is cancelled, the watcher leaves its select.
C16_ListenersDoNotInterfere ==
    /\ [][nsig' = nsig + 1 =>
            /\ \A w \in Sides : sigc[w].registered => sigc'[w].buf = 1
            /\ \A i \in Contexts : sc[i].registered => sc'[i].buf = 1]_vars
    /\ [][/\ \A w \in Sides : sigc'[w].buf < sigc[w].buf => Watcher(w)' # Watcher(w)
          /\ \A i \in Contexts : sc'[i].buf < sc[i].buf => sc'[i].go # sc[i].go]_vars
    /\ \A i \in Contexts : sc[i].got ~> sc[i].done
    /\ sigc["http"].got ~> (hw = "woken")
    /\ sigc["grpc"].got ~> (gw = "woken")

C16_Witness ==
    /\ ~Shared /\ ~ctxDone /\ ~group.cancelled
    /\ nsig = 1
    /\ hw = "woken" /\ gw = "woken"
    /\ \A i \in Contexts : sc[i].done /\ sc[i].sigs = {}

\* C17: when a listener failed to bind, the run function of that side has returned
\* the bind error, without any cancellation or signal being needed, and the
\* "started" line of that listener was never logged.
C17_BindFailureIsNeverReportedStarted ==
    /\ herr = ErrBindHTTP =>
         (hrun = "done" /\ hres = ErrBindHTTP /\ StartedHTTP \notin logged)
    /\ gres = ErrBindGRPC =>
         (grun = "done" /\ StartedGRPC \notin logged)

\* C18: in shared mode every request enters the CORS wrapper first, and the
\* dispatcher routes a request only after the CORS wrapper and the latency/logging
\* wrapper have been entered; this includes the requests routed to the RPC engine.
C18_MiddlewareWrapsDispatcher ==
    (handler = ChainShared /\ Served) =>
        LET t == handled.eff.trace IN
        /\ t[1] = "corsAllowAll"
        /\ \A i \in DOMAIN t :
             t[i] \in {"dispatch", "grpc"} =>
                 /\ \E j \in 1..(i - 1) : t[j] = "corsAllowAll"
                 /\ \E j \in 1..(i - 1) : t[j] = "httpMid"

\* C19: in one invocation of run, however cancellation and signals interleave,
\* srv.Shutdown is invoked at most once and grpcServer.GracefulStop at most once;
\* and where sharedServer was given no RPC engine, its run never starts a
\* GracefulStop.
C19_ShutdownAndStopAtMostOnce ==
    /\ calls.shutdown <= 1
    /\ calls.gracefulStop <= 1
    /\ GrpcServerNil => calls.stopGoroutines = 0

C19_Witness ==
    /\ ~Shared /\ top = "done"
    /\ ctxDone /\ nsig = MaxSignals
    /\ sigc["http"].buf = 1 /\ sigc["grpc"].buf = 1
    /\ calls = [shutdown |-> 1, gracefulStop |-> 1, stopGoroutines |-> 0]

\* C20: after RunHTTP the coordinator is in shared mode whatever GRPCAddr was
\* configured: one listener, at the configured HTTPAddr, whose dispatcher has the
\* RPC engine, and no grpcRun; after Conf.Server called directly there is a second,
\* separate RPC listener exactly when GRPCAddr differs from HTTPAddr.
C20_RunHTTPForcesSharedMode ==
    hrun # "idle" =>
        /\ conf.HTTPAddr = caller.conf.HTTPAddr
        /\ caller.entry = "RunHTTP" =>
             /\ Shared /\ ~GrpcServerNil
             /\ grun = "idle" /\ gw = "idle" /\ top = "idle"
             /\ StartedGRPC \notin logged
        /\ caller.entry = "Server" =>
             /\ conf = caller.conf
             /\ grun # "idle" <=> caller.conf.GRPCAddr # caller.conf.HTTPAddr

C20_Witness ==
    /\ caller = [entry |-> "RunHTTP", conf |-> [HTTPAddr |-> ":8080", GRPCAddr |-> ":9090"]]
    /\ hrun = "serve"
    /\ httpInflight = 1 /\ rpcInflight = 1
    /\ logged = {StartedHTTP}

\* C21: in the HTTP-only coordinator the context given to srv.Shutdown is cancelled
\* before its 5 s have passed only by a signal that was delivered after shutdown
\* had begun, whichever kind of ctx run was given.
C21_FirstSignalNeverAbortsDrain ==
    shutdownCtx = "cancelled" => olate

\* C22: the shutdown goroutine started by the coordinator's run never blocks for
\* ever: once it offers Shutdown's result on the unbuffered se, run receives it
\* and the goroutine ends, also when the serve call returned a bind failure and
\* run has already returned.
C22_ShutdownGoroutineSendIsReceived ==
    (hw = "send") ~> (hw = "done")

\* C23: the goroutine that Run starts ends whenever svc.Run returns: its send on
\* the unbuffered errc is received, also when Run took the cancellation branch
\* and has already returned.
C23_RunGoroutineTerminates ==
    (rgo = "send") ~> (rgo = "done")

=============================================================================
